---- MODULE Spec2Model ----
(***************************************************************************)
(* Recovery shims awadhfree, cdsfree, icsfree and verbalfree: a set of     *)
(* explicit placeholder functions per module plus the module-level         *)
(* __getattr__ fallback that synthesizes stub callables for missing names. *)
(*                                                                         *)
(* Python strings whose characters matter (attribute names, messages) are  *)
(* sequences of one-character strings, so that str.startswith and          *)
(* str.isidentifier are computed on the characters.  Log templates, which  *)
(* the program never inspects, are TLA+ strings.                           *)
(***************************************************************************)
EXTENDS Integers, Sequences, FiniteSets, TLC

(* ------------------------------ bounds -------------------------------- *)

\* stub closures one host keeps alive at a time
MaxStubs == 2
\* logger calls recorded before the host stops exercising the module
MaxLog == 2
\* length of the generated name suffixes fed to __getattr__
MaxSuffixLen == 2

(* --------------------------- text helpers ----------------------------- *)

MODULE_ == <<"m","o","d","u","l","e","_">>
FUNC_ == <<"f","u","n","c","_">>

DigitChars == <<"0","1","2","3","4","5","6","7","8","9">>

Letters ==
  {"a","b","c","d","e","f","g","h","i","j","k","l","m","n","o","p","q","r",
   "s","t","u","v","w","x","y","z","A","B","C","D","E","F","G","H","I","J",
   "K","L","M","N","O","P","Q","R","S","T","U","V","W","X","Y","Z"}

Range(s) == {s[i] : i \in DOMAIN s}

\* the decimal text of a number literal, as it is spelled in the names
RECURSIVE Dec(_)
Dec(n) ==
  IF n < 10 THEN <<DigitChars[n + 1]>>
  ELSE Dec(n \div 10) \o <<DigitChars[(n % 10) + 1]>>

\* the names "module_<n>" and "func_<n>"
M(n) == MODULE_ \o Dec(n)
F(n) == FUNC_ \o Dec(n)

\* str.startswith(prefix)
startswith(s, p) == Len(s) >= Len(p) /\ SubSeq(s, 1, Len(p)) = p

\* str.isidentifier(): a letter or underscore, then letters, digits, underscores
isidentifier(s) ==
  /\ Len(s) > 0
  /\ s[1] \in Letters \cup {"_"}
  /\ \A i \in 2..Len(s) : s[i] \in Letters \cup {"_"} \cup Range(DigitChars)

(* ----------------------------- modules -------------------------------- *)

Modules == {"awadhfree", "cdsfree", "icsfree", "verbalfree"}

\* __name__ of each module, the name of its logger
ModuleName(m) ==
  CASE m = "awadhfree" -> <<"a","w","a","d","h","f","r","e","e">>
    [] m = "cdsfree" -> <<"c","d","s","f","r","e","e">>
    [] m = "icsfree" -> <<"i","c","s","f","r","e","e">>
    [] m = "verbalfree" -> <<"v","e","r","b","a","l","f","r","e","e">>

(* ------------------------- Python values ------------------------------ *)

PyNone == [py |-> "None"]
PyStr(s) == [py |-> "str", s |-> s]
PyDict(d) == [py |-> "dict", d |-> d]
\* a reference to a function object: what identity (the is operator) compares
PyRef(oid) == [py |-> "ref", oid |-> oid]

\* one call on the module's logger
Event(m, level, func, msg, has, name, args, kwargs) ==
  [logger |-> ModuleName(m), level |-> level, func |-> func, msg |-> msg,
   has |-> has, name |-> name, args |-> args, kwargs |-> kwargs]

(* --------------------------- identifiers ------------------------------ *)

\* the other names the module bodies bind
Id ==
  [annotations |-> <<"a","n","n","o","t","a","t","i","o","n","s">>,
   logging |-> <<"l","o","g","g","i","n","g">>,
   Any |-> <<"A","n","y">>,
   Callable |-> <<"C","a","l","l","a","b","l","e">>,
   Dict |-> <<"D","i","c","t">>,
   logger |-> <<"l","o","g","g","e","r">>,
   setup |-> <<"s","e","t","u","p">>,
   _make_dummy |-> <<"_","m","a","k","e","_","d","u","m","m","y">>,
   _make_stub |-> <<"_","m","a","k","e","_","s","t","u","b">>,
   __getattr__ |-> <<"_","_","g","e","t","a","t","t","r","_","_">>,
   __all__ |-> <<"_","_","a","l","l","_","_">>,
   PLACEHOLDER_MODULES |-> <<"P","L","A","C","E","H","O","L","D","E","R","_","M","O","D","U","L","E","S">>,
   EXPLICIT_FUNCS |-> <<"E","X","P","L","I","C","I","T","_","F","U","N","C","S">>,
   name |-> <<"n","a","m","e">>,
   fname |-> <<"f","n","a","m","e">>,
   _make |-> <<"_","m","a","k","e">>,
   _makef |-> <<"_","m","a","k","e","f">>,
   _PLACEHOLDER_MODULES |-> <<"_","P","L","A","C","E","H","O","L","D","E","R","_","M","O","D","U","L","E","S">>,
   _EXPLICIT_FUNCS |-> <<"_","E","X","P","L","I","C","I","T","_","F","U","N","C","S">>,
   _name |-> <<"_","n","a","m","e">>,
   _fname |-> <<"_","f","n","a","m","e">>,
   _fn |-> <<"_","f","n">>,
   _f |-> <<"_","f">>,
   _stub |-> <<"_","s","t","u","b">>,
   _dummy |-> <<"_","d","u","m","m","y">>]

(* ------------------------ function objects ---------------------------- *)

\* a module-level binding that is no placeholder function
Other(n, line) == [oid |-> <<"obj", line>>, kind |-> "other", what |-> n]

\* a function object made by a def statement: code is the name in its def
\* statement, qualname its __name__, sig its parameter list, level/msg/has
\* its single logger call, bound the closure variable n of a loop-made
\* function (empty for a plain def), result what it returns
Def(oid, code, n, sig, level, msg, has, bound, result, placeholder) ==
  [oid |-> oid, kind |-> "def", code |-> code, qualname |-> n, sig |-> sig,
   level |-> level, msg |-> msg, has |-> has, bound |-> bound,
   result |-> result, placeholder |-> placeholder]

\* def name(*args, **kwargs) at a source line
VarDef(line, n, level, msg, has, result) ==
  Def(<<"def", line>>, n, n, "varargs", level, msg, has, <<>>, result, TRUE)

\* def name() at a source line: logger.debug("<name> executed"), returns None
NoArgDef(line, n, msg) ==
  Def(<<"def", line>>, n, n, "noargs", "DEBUG", msg, {}, <<>>, PyNone, TRUE)

\* def setup(client)
SetupDef(line, msg) ==
  Def(<<"def", line>>, Id.setup, Id.setup, "client", "INFO", msg, {}, <<>>,
      PyNone, FALSE)

OK == <<" ","O","K">>

(* ------------------------- placeholder lists -------------------------- *)

PLACEHOLDER_MODULES(m) ==
  CASE m = "cdsfree" ->
         <<M(1024), M(7085), M(9603), M(2278),
           M(155), M(4650), M(1372), M(3125),
           M(3696), M(6821), M(1152), M(3096),
           M(5358), M(1337), M(5873)>>
    [] m = "icsfree" ->
         <<M(9950), M(5776), M(9709), M(4940),
           M(3478), M(7622), M(4683), M(6245),
           M(5898), M(3921), M(3397), M(8547),
           M(5192), M(1152), M(4983)>>
    [] OTHER -> <<>>

EXPLICIT_FUNCS(m) ==
  CASE m = "cdsfree" ->
         <<F(6860), F(1501), F(6451), F(3497), F(8510),
           F(2652), F(1904), F(5312), F(9476), F(1488),
           F(6050), F(9562), F(1259), F(7514), F(7239),
           F(4594), F(7029), F(9562), F(9611), F(9078),
           F(7334), F(9701), F(8757), F(61), F(6261),
           F(6822), F(3607), F(8025), F(8623), F(9932),
           F(6711), F(9992), F(5244), F(9341), F(7159),
           F(2185), F(5508), F(8328), F(2759), F(3370),
           F(5246), F(6962), F(9156), F(4063), F(8775),
           F(9618), F(5840), F(8005), F(9667), F(5964),
           F(1780), F(7488), F(5746), F(5465), F(8143),
           F(6309)>>
    [] m = "icsfree" ->
         <<F(9688), F(4890), F(2536), F(5582), F(7887),
           F(9221), F(5664), F(8117), F(4210), F(283),
           F(7348), F(5840), F(6913), F(9472), F(6595),
           F(8247), F(6313), F(151), F(568), F(7786),
           F(6479), F(851), F(3534), F(6352), F(1441),
           F(9477), F(3773), F(9486), F(3484), F(8895),
           F(4626), F(206), F(3792), F(6094), F(8031),
           F(820), F(8675), F(5192), F(8116), F(1398),
           F(7791), F(5531), F(14), F(473), F(8426),
           F(8300), F(679), F(5319), F(6091), F(1464),
           F(7125), F(7839), F(955), F(3290), F(5812),
           F(2344), F(6335), F(4374), F(5253), F(2832),
           F(4996), F(243), F(2053), F(3535), F(4631),
           F(4811), F(4683), F(9446), F(2277), F(2865),
           F(7651), F(6851)>>
    [] OTHER -> <<>>

\* _make with _fn reading the loop variable instead of its own n: every
\* placeholder then answers with the last name of the list
_make_late_binding(m, n, i) ==
  LET last == PLACEHOLDER_MODULES(m)[Len(PLACEHOLDER_MODULES(m))]
  IN Def(<<"_fn", i>>, Id._fn, n, "varargs", "INFO",
         "%s called with args=%s kwargs=%s", {"name", "args", "kwargs"}, last,
         PyDict([name |-> last, ok |-> TRUE]), TRUE)

\* the closure _fn that _make(n) returns in the i-th round of the loop
_make(m, n, i) ==
  Def(<<"_fn", i>>, Id._fn, n, "varargs", "INFO",
      "%s called with args=%s kwargs=%s", {"name", "args", "kwargs"}, n,
      PyDict([name |-> n, ok |-> TRUE]), TRUE)

\* the closure _f that _makef(n) returns in the i-th round of the loop
_makef(m, n, i) ==
  Def(<<"_f", i>>, Id._f, n, "varargs", "DEBUG",
      "%s executed - args=%s kwargs=%s", {"name", "args", "kwargs"}, n,
      PyNone, TRUE)

(* --------------------------- module load ------------------------------ *)

\* globals()[k] = v
Bind(g, k, v) == (k :> v) @@ g

\* the round of a loop over list whose assignment to globals()[x] is the last
LastRound(list, x) ==
  CHOOSE i \in DOMAIN list :
    list[i] = x /\ \A j \in DOMAIN list : list[j] = x => j <= i

\* for name in PLACEHOLDER_MODULES: globals()[name] = _make(name)
\* (each round overwrites what an earlier round bound to the same name)
PlaceholderLoop(m, g, list) ==
  [x \in Range(list) |-> _make(m, x, LastRound(list, x))] @@ g

\* for fname in EXPLICIT_FUNCS: globals()[fname] = _makef(fname)
ExplicitLoop(m, g, list) ==
  [x \in Range(list) |-> _makef(m, x, LastRound(list, x))] @@ g

\* the statements of a module body, in source order
Stmt(n, obj) == [op |-> "bind", name |-> n, obj |-> obj]

\* an import, an assignment or a def that binds no placeholder
Name(n, line) == Stmt(n, Other(n, line))

Body(m) ==
  CASE m = "awadhfree" ->
    <<Name(Id.annotations, 15), Name(Id.logging, 16),
      Name(Id.Any, 17), Name(Id.Callable, 17),
      Name(Id.logger, 19),
      Stmt(M(772), VarDef(24, M(772), "INFO",
           "module_772 called with args=%s kwargs=%s", {"args", "kwargs"},
           PyStr(M(772) \o OK))),
      Stmt(M(1861), VarDef(30, M(1861), "INFO", "module_1861 called", {},
           PyStr(M(1861) \o OK))),
      Stmt(M(567), VarDef(36, M(567), "INFO", "module_567 called", {},
           PyStr(M(567) \o OK))),
      Stmt(M(7197), VarDef(42, M(7197), "INFO", "module_7197 called", {},
           PyStr(M(7197) \o OK))),
      Stmt(F(2731), NoArgDef(49, F(2731), "func_2731 executed")),
      Stmt(F(166), NoArgDef(54, F(166), "func_166 executed")),
      Stmt(F(6399), NoArgDef(58, F(6399), "func_6399 executed")),
      Name(Id._make_dummy, 65), Name(Id.__getattr__, 83),
      Stmt(Id.setup, SetupDef(96,
           "awadhfree.setup() called - no handlers registered by default")),
      Name(Id.__all__, 107)>>
    [] m = "cdsfree" ->
    <<Name(Id.annotations, 21), Name(Id.logging, 22),
      Name(Id.Any, 23), Name(Id.Callable, 23),
      Name(Id.Dict, 23), Name(Id.logger, 25),
      Name(Id.PLACEHOLDER_MODULES, 33),
      [op |-> "for_modules", var |-> Id.name, fn |-> Id._make, line |-> 40],
      Name(Id.EXPLICIT_FUNCS, 52),
      [op |-> "for_funcs", var |-> Id.fname, fn |-> Id._makef, line |-> 67],
      Name(Id._make_stub, 79), Name(Id.__getattr__, 90),
      Stmt(Id.setup, SetupDef(103,
           "cdsfree.setup() called - no handlers registered by default")),
      Name(Id.__all__, 114)>>
    [] m = "icsfree" ->
    <<Name(Id.annotations, 18), Name(Id.logging, 19),
      Name(Id.Any, 20), Name(Id.Callable, 20),
      Name(Id.Dict, 20), Name(Id.logger, 22),
      Name(Id._PLACEHOLDER_MODULES, 26),
      [op |-> "for_modules", var |-> Id._name, fn |-> Id._make, line |-> 33],
      Name(Id._EXPLICIT_FUNCS, 44),
      [op |-> "for_funcs", var |-> Id._fname, fn |-> Id._makef, line |-> 62],
      Name(Id._make_stub, 74), Name(Id.__getattr__, 84),
      Stmt(Id.setup, SetupDef(96,
           "icsfree.setup() called - no handlers registered by default")),
      Name(Id.__all__, 107)>>
    [] m = "verbalfree" ->
    <<Name(Id.annotations, 16), Name(Id.logging, 17),
      Name(Id.Any, 18), Name(Id.Callable, 18),
      Name(Id.Dict, 18), Name(Id.logger, 20),
      Stmt(M(3397), VarDef(27, M(3397), "INFO",
           "module_3397 called with args=%s kwargs=%s", {"args", "kwargs"},
           PyDict([name |-> M(3397), ok |-> TRUE]))),
      Stmt(M(6945), VarDef(32, M(6945), "INFO", "module_6945 called", {},
           PyDict([name |-> M(6945), value |-> 6945]))),
      Stmt(M(336), VarDef(37, M(336), "INFO", "module_336 called", {},
           PyDict([name |-> M(336)]))),
      Stmt(M(1960), VarDef(42, M(1960), "INFO", "module_1960 called", {},
           PyDict([name |-> M(1960)]))),
      Stmt(M(8023), VarDef(47, M(8023), "INFO", "module_8023 called", {},
           PyDict([name |-> M(8023)]))),
      Stmt(M(4952), VarDef(52, M(4952), "INFO", "module_4952 called", {},
           PyDict([name |-> M(4952)]))),
      Stmt(M(6005), VarDef(57, M(6005), "INFO", "module_6005 called", {},
           PyDict([name |-> M(6005)]))),
      Stmt(M(4251), VarDef(62, M(4251), "INFO", "module_4251 called", {},
           PyDict([name |-> M(4251)]))),
      Stmt(M(937), VarDef(67, M(937), "INFO", "module_937 called", {},
           PyDict([name |-> M(937)]))),
      Stmt(M(1152), VarDef(72, M(1152), "INFO", "module_1152 called", {},
           PyDict([name |-> M(1152)]))),
      Stmt(F(2505), NoArgDef(78, F(2505), "func_2505 executed")),
      Stmt(F(1703), NoArgDef(82, F(1703), "func_1703 executed")),
      Stmt(F(7807), NoArgDef(86, F(7807), "func_7807 executed")),
      Stmt(F(368), NoArgDef(90, F(368), "func_368 executed")),
      Stmt(F(4079), NoArgDef(94, F(4079), "func_4079 executed")),
      Stmt(F(5285), NoArgDef(98, F(5285), "func_5285 executed")),
      Stmt(F(1419), NoArgDef(102, F(1419), "func_1419 executed")),
      Stmt(F(2970), NoArgDef(106, F(2970), "func_2970 executed")),
      Stmt(F(6140), NoArgDef(110, F(6140), "func_6140 executed")),
      Stmt(F(323), NoArgDef(114, F(323), "func_323 executed")),
      Name(Id._make_stub, 121), Name(Id.__getattr__, 131),
      Stmt(Id.setup, SetupDef(145,
           "verbalfree.setup() called - no handlers registered by default")),
      Name(Id.__all__, 156)>>

\* run the statements from the i-th on, on the globals g
RECURSIVE Exec(_, _, _, _)
Exec(m, g, stmts, i) ==
  IF i > Len(stmts) THEN g
  ELSE LET s == stmts[i]
           g1 == CASE s.op = "bind" -> Bind(g, s.name, s.obj)
                   [] s.op = "for_modules" ->
                        LET list == PLACEHOLDER_MODULES(m)
                        IN Bind(Bind(PlaceholderLoop(m, g, list),
                                     s.var, Other(s.var, s.line)),
                                s.fn, Other(s.fn, s.line + 2))
                   [] s.op = "for_funcs" ->
                        LET list == EXPLICIT_FUNCS(m)
                        IN Bind(Bind(ExplicitLoop(m, g, list),
                                     s.var, Other(s.var, s.line)),
                                s.fn, Other(s.fn, s.line + 1))
       IN Exec(m, g1, stmts, i + 1)

\* the module namespace once the import has run the whole body
LoadModule(m) == Exec(m, <<>>, Body(m), 1)

\* the namespaces of the four modules as their imports leave them
Loaded == [m \in Modules |-> LoadModule(m)]
LoadedNames == [m \in Modules |-> DOMAIN Loaded[m]]

(* ------------------------ dynamic fallback ---------------------------- *)

\* what the interpreter state holds for one imported module: the bindings
\* made in its globals since the import, the stub closures made so far, and
\* the calls made on its logger
St(g, made, l) == [ns |-> g, stubs |-> made, log |-> l]

\* name in globals(), and globals()[name]
Defined(m, name, st) == name \in DOMAIN st.ns \/ name \in LoadedNames[m]
Global(m, name, st) ==
  IF name \in DOMAIN st.ns THEN st.ns[name] ELSE Loaded[m][name]

NoValue == [py |-> "absent"]
NoExc == [type |-> "none", msg |-> <<>>]

\* the outcome of a call: the state after it, and what it returned or raised
Return(st, v) == [st |-> st, outcome |-> "return", value |-> v, exc |-> NoExc]
Raise(st, e) == [st |-> st, outcome |-> "raise", value |-> NoValue, exc |-> e]

\* f"Auto-generated stub for missing symbol '{name}'": the __doc__ that
\* _make_stub sets on a stub; a function of its __name__, which nothing reads
StubDoc(name) ==
  <<"A","u","t","o","-","g","e","n","e","r","a","t","e","d"," ","s","t","u",
    "b"," ","f","o","r"," ","m","i","s","s","i","n","g"," ","s","y","m","b",
    "o","l"," ","'">> \o name \o <<"'">>

\* f"module '{__name__}' has no attribute '{name}'"
AttributeError(m, name) ==
  [type |-> "AttributeError",
   msg |-> <<"m","o","d","u","l","e"," ","'">> \o ModuleName(m)
           \o <<"'"," ","h","a","s"," ","n","o"," ","a","t","t","r","i","b",
                "u","t","e"," ","'">> \o name \o <<"'">>]

\* a call that does not fit the parameter list of a def
TypeError == [type |-> "TypeError", msg |-> <<>>]

\* _make_stub(name) / _make_dummy(name): a new closure whose cell holds name,
\* with its __name__ set to name (and its __doc__ to StubDoc(name))
_make_stub(m, name, st) ==
  LET f == [oid |-> <<"stub", Len(st.stubs) + 1>>, kind |-> "stub",
            code |-> IF m = "awadhfree" THEN Id._dummy ELSE Id._stub,
            cell |-> name, qualname |-> name]
  IN Return([st EXCEPT !.stubs = Append(@, f)], PyRef(f.oid))

\* the test requiring a valid identifier after the prefix
Accepts_identifiers_only(m, name) ==
  (startswith(name, MODULE_) \/ startswith(name, FUNC_)) /\ isidentifier(name)

\* the test of awadhfree copied to every module
Accepts_any_identifier(m, name) ==
  startswith(name, MODULE_) \/ startswith(name, FUNC_) \/ isidentifier(name)

\* the test of the strict modules copied to awadhfree
Accepts_prefix_only(m, name) ==
  startswith(name, MODULE_) \/ startswith(name, FUNC_)

\* the test of the if statement in __getattr__
Accepts(m, name) ==
  IF m = "awadhfree"
  THEN startswith(name, MODULE_) \/ startswith(name, FUNC_) \/ isidentifier(name)
  ELSE startswith(name, MODULE_) \/ startswith(name, FUNC_)

\* __getattr__ with a logger.info call on the accepting path
getattr_logging(m, name, st) ==
  IF Accepts(m, name)
  THEN LET e == Event(m, "INFO", Id.__getattr__, "Resolving missing name %s",
                      {"name"}, name, <<>>, {})
       IN _make_stub(m, name, [st EXCEPT !.log = Append(@, e)])
  ELSE Raise(st, AttributeError(m, name))

\* __getattr__ keeping the stub it made in globals()
getattr_caching(m, name, st) ==
  IF Accepts(m, name)
  THEN LET r == _make_stub(m, name, st)
           f == r.st.stubs[Len(r.st.stubs)]
       IN Return([r.st EXCEPT !.ns = Bind(@, name, f)], r.value)
  ELSE Raise(st, AttributeError(m, name))

\* the module-level __getattr__(name)
__getattr__(m, name, st) ==
  IF Accepts(m, name) THEN _make_stub(m, name, st)
  ELSE Raise(st, AttributeError(m, name))

\* getattr(module, name) asking __getattr__ before the module's globals
ModuleAttr_hook_first(m, name, st) ==
  IF Accepts(m, name) \/ ~Defined(m, name, st)
  THEN [hook |-> TRUE, r |-> __getattr__(m, name, st)]
  ELSE [hook |-> FALSE, r |-> Return(st, PyRef(Global(m, name, st).oid))]

\* getattr(module, name): the module's globals first, __getattr__ on a miss
ModuleAttr(m, name, st) ==
  IF Defined(m, name, st)
  THEN [hook |-> FALSE, r |-> Return(st, PyRef(Global(m, name, st).oid))]
  ELSE [hook |-> TRUE, r |-> __getattr__(m, name, st)]

\* the stub closure a reference points to
Deref(ref, st) == st.stubs[ref.oid[2]]

\* _stub reading a name shared by all stubs, the one of the stub made last
_stub_last_made(m, f, args, kwargs, st) ==
  LET name == st.stubs[Len(st.stubs)].cell
      e == Event(m, "WARNING", f.code, "Stub called: %s args=%s kwargs=%s",
                 {"name", "args", "kwargs"}, name, args, kwargs)
  IN Return([st EXCEPT !.log = Append(@, e)],
            PyDict([stub |-> name, args |-> args, kwargs |-> kwargs]))

\* _stub logging through logger.info
_stub_info(m, f, args, kwargs, st) ==
  LET e == Event(m, "INFO", f.code, "Stub called: %s args=%s kwargs=%s",
                 {"name", "args", "kwargs"}, f.cell, args, kwargs)
  IN Return([st EXCEPT !.log = Append(@, e)],
            PyDict([stub |-> f.cell, args |-> args, kwargs |-> kwargs]))

\* the closure _stub / _dummy called with (*args, **kwargs)
_stub(m, f, args, kwargs, st) ==
  LET e == Event(m, "WARNING", f.code,
                 IF m = "awadhfree"
                 THEN "Called fallback stub %s with args=%s kwargs=%s"
                 ELSE "Stub called: %s args=%s kwargs=%s",
                 {"name", "args", "kwargs"}, f.cell, args, kwargs)
  IN Return([st EXCEPT !.log = Append(@, e)],
            PyDict([stub |-> f.cell, args |-> args, kwargs |-> kwargs]))

\* whether (*args, **kwargs) fits the parameter list of a def
Fits(sig, args, kwargs) ==
  CASE sig = "varargs" -> TRUE
    [] sig = "noargs" -> args = <<>> /\ kwargs = {}
    [] sig = "client" -> Len(args) = 1 /\ kwargs = {}

\* an explicit placeholder (or setup) called with (*args, **kwargs)
CallDef(m, f, args, kwargs, st) ==
  IF ~Fits(f.sig, args, kwargs) THEN Raise(st, TypeError)
  ELSE LET e == Event(m, f.level, f.code, f.msg, f.has,
                      IF "name" \in f.has THEN f.bound ELSE <<>>,
                      IF "args" \in f.has THEN args ELSE <<>>,
                      IF "kwargs" \in f.has THEN kwargs ELSE {})
       IN Return([st EXCEPT !.log = Append(@, e)], f.result)

(* ------------------------------ state --------------------------------- *)

VARIABLES
  mod,    \* the module this interpreter imported
  ns,     \* the bindings, name -> object, made in its globals since the
          \* import; the globals are these laid over Loaded[mod]
  stubs,  \* the stub closures __getattr__ has made, in order of creation
  log,    \* the calls made on the module's logger, in order
  held,   \* the host's bindings: the name it asked for and the stub it got
  ret     \* the last operation of the host and its outcome

vars == <<mod, ns, stubs, log, held, ret>>

\* the interpreter state of the module
Now == St(ns, stubs, log)

NoRef == [py |-> "ref", oid |-> <<"none", 0>>]

Ret(op, n, hook, target, args, kwargs, r) ==
  [op |-> op, name |-> n, hook |-> hook, target |-> target, args |-> args,
   kwargs |-> kwargs, outcome |-> r.outcome, value |-> r.value, exc |-> r.exc]

(* ------------------------------ inputs -------------------------------- *)

TotallyUnrelated ==
  <<"t","o","t","a","l","l","y","_","u","n","r","e","l","a","t","e","d">>

\* positional and keyword arguments of the calls
CallInputs ==
  {[args |-> <<>>, kwargs |-> {}], [args |-> <<1, 2>>, kwargs |-> {<<"x", 3>>}]}

\* the placeholders the host calls
CallNames ==
  [m \in Modules |->
     CASE m = "awadhfree" -> {M(772), F(2731)}
       [] m = "cdsfree" -> {M(1024), F(9562)}
       [] m = "icsfree" -> {M(9950), F(9688)}
       [] m = "verbalfree" -> {M(3397), F(2505)}]

\* the attributes the host looks up: defined ones, undefined ones with an
\* accepted prefix, and undefined ones without
LookupNames ==
  [m \in Modules |->
     CallNames[m] \cup
       (IF m = "awadhfree" THEN {M(9999), TotallyUnrelated, <<"9", "x">>}
        ELSE {M(9999), FUNC_, TotallyUnrelated})]

\* the names handed to __getattr__ directly: every head followed by every
\* suffix of at most MaxSuffixLen characters, and every defined name
Heads ==
  {<<>>, MODULE_, FUNC_, SubSeq(MODULE_, 1, 6), SubSeq(FUNC_, 1, 4),
   <<"M">> \o Tail(MODULE_), <<"x">> \o FUNC_}
SuffixChars == {"1", "a", "_", "-"}
Suffixes == UNION {[1..k -> SuffixChars] : k \in 0..MaxSuffixLen}
ResolveNames ==
  [m \in Modules |->
     {h \o t : h \in Heads, t \in Suffixes} \cup {TotallyUnrelated}
       \cup LoadedNames[m]]

(* ------------------------------ actions ------------------------------- *)

Init ==
  /\ mod \in Modules
  /\ ns = <<>>
  /\ stubs = <<>>
  /\ log = <<>>
  /\ held = <<>>
  /\ ret = Ret("import", <<>>, FALSE, NoRef, <<>>, {},
               Return(Now, NoValue))

\* the state after a call, within what one host keeps
Becomes(st) ==
  /\ Len(st.stubs) <= MaxStubs
  /\ Len(st.log) <= MaxLog
  /\ ns' = st.ns
  /\ stubs' = st.stubs
  /\ log' = st.log

\* the host keeps the stub a lookup returned, under the name it asked for
Keep(n, hook, r) ==
  held' = IF hook /\ r.outcome = "return"
          THEN Append(held, [name |-> n, ref |-> r.value])
          ELSE held

\* the host has looked up n, with the outcome r
Looked(op, n, hook, r) ==
  /\ Becomes(r.st)
  /\ Keep(n, hook, r)
  /\ ret' = Ret(op, n, hook, NoRef, <<>>, {}, r)
  /\ UNCHANGED mod

\* the host has called target as n(*args, **kwargs), with the outcome r
Called(op, n, hook, target, args, kwargs, r) ==
  /\ Becomes(r.st)
  /\ ret' = Ret(op, n, hook, target, args, kwargs, r)
  /\ UNCHANGED <<mod, held>>

\* module.<n>, or from module import <n>
LookupAs(n, a) == Looked("lookup", n, a.hook, a.r)
Lookup(n) == LookupAs(n, ModuleAttr(mod, n, Now))

\* module.__getattr__(n), right after the import
Resolve(n) ==
  /\ ret.op = "import"
  /\ Looked("getattr", n, TRUE, __getattr__(mod, n, Now))

\* a stub the host holds, called with (*args, **kwargs)
CallStub(j, args, kwargs) ==
  Called("call_stub", held[j].name, FALSE, held[j].ref, args, kwargs,
         _stub(mod, Deref(held[j].ref, Now), args, kwargs, Now))

\* f(*args, **kwargs) for an object f
CallObject(m, f, args, kwargs, st) ==
  CASE f.kind = "stub" -> _stub(m, f, args, kwargs, st)
    [] f.kind = "def" -> CallDef(m, f, args, kwargs, st)
    [] OTHER -> Raise(st, TypeError)

\* module.<n>(*args, **kwargs), a being what the lookup of n gave
CallLooked(m, n, a, args, kwargs, st) ==
  IF a.r.outcome = "raise" THEN [hook |-> a.hook, f |-> NoRef, r |-> a.r]
  ELSE [hook |-> a.hook, f |-> a.r.value,
        r |-> CallObject(m, IF a.hook THEN Deref(a.r.value, a.r.st)
                            ELSE Global(m, n, st),
                         args, kwargs, a.r.st)]

\* module.<n>(*args, **kwargs)
CallAttr(m, n, args, kwargs, st) ==
  CallLooked(m, n, ModuleAttr(m, n, st), args, kwargs, st)

\* an explicit placeholder called by its name with (*args, **kwargs)
CalledAttr(op, n, args, kwargs, c) ==
  Called(op, n, c.hook, c.f, args, kwargs, c.r)
CallPlaceholder(n, args, kwargs) ==
  CalledAttr("call_placeholder", n, args, kwargs,
             CallAttr(mod, n, args, kwargs, Now))

\* module.setup(client)
Setup(client) ==
  CalledAttr("setup", Id.setup, <<client>>, {},
             CallAttr(mod, Id.setup, <<client>>, {}, Now))

Next ==
  \/ \E n \in LookupNames[mod] : Lookup(n)
  \/ \E j \in 1..Len(held), c \in CallInputs :
       CallStub(j, c.args, c.kwargs)
  \/ \E n \in CallNames[mod], c \in CallInputs :
       CallPlaceholder(n, c.args, c.kwargs)
  \/ Setup(0)

Spec == Init /\ [][Next]_vars

\* __getattr__ as a function of the name: one call on a fresh import
NextResolve == \E n \in ResolveNames[mod] : Resolve(n)

SpecResolve == Init /\ [][NextResolve]_vars
(* ----------------------------- properties ----------------------------- *)

\* name = p followed by something
BeginsWith(name, p) ==
  \E i \in 1..(Len(name) + 1) : name = p \o SubSeq(name, i, Len(name))

Prefixed(name) == BeginsWith(name, MODULE_) \/ BeginsWith(name, FUNC_)

\* the value is a reference to a stub closure that exists
IsStubRef(v) ==
  /\ v.py = "ref"
  /\ v.oid[1] = "stub"
  /\ v.oid[2] \in DOMAIN stubs
  /\ stubs[v.oid[2]].kind = "stub"

\* the message ends in the quoted name
Carries(msg, name) ==
  /\ Len(msg) >= Len(name) + 2
  /\ msg[Len(msg)] = "'"
  /\ SubSeq(msg, Len(msg) - Len(name), Len(msg) - 1) = name
  /\ msg[Len(msg) - Len(name) - 1] = "'"

\* the explicit placeholders of a module
Placeholders(m) ==
  {n \in LoadedNames[m] : Loaded[m][n].kind = "def" /\ Loaded[m][n].placeholder}

Warnings(l) == SelectSeq(l, LAMBDA e : e.level = "WARNING")

\* an informational event emitted by __getattr__
IsResolutionEvent(e) == e.level = "INFO" /\ e.func = Id.__getattr__

\* C1: in each module, __getattr__ of a name that starts with "module_" or
\* "func_" and is not defined in the module returns a stub callable and does
\* not raise, whatever follows the prefix (nothing, or no valid identifier).
C1_PrefixedNamesResolve ==
  (ret.op = "getattr" /\ Prefixed(ret.name) /\ ret.name \notin LoadedNames[mod])
    => (ret.outcome = "return" /\ ret.exc = NoExc /\ IsStubRef(ret.value))

C1_Witness ==
  /\ ret.op = "getattr"
  /\ ret.name = MODULE_ \o <<"-", "1">>
  /\ ret.outcome = "return"
  /\ mod = "icsfree"

\* C2: in cdsfree, icsfree and verbalfree, __getattr__ of a name that starts
\* with neither prefix returns nothing and raises AttributeError with a
\* message carrying that name; no stub is made and nothing is logged.
C2_StrictModulesReject ==
  (mod # "awadhfree" /\ ret.op = "getattr" /\ ~Prefixed(ret.name))
    => /\ ret.outcome = "raise"
       /\ ret.value = NoValue
       /\ ret.exc.type = "AttributeError"
       /\ Carries(ret.exc.msg, ret.name)
       /\ stubs = <<>> /\ held = <<>>
       /\ log = <<>>

C2_Witness ==
  /\ mod = "cdsfree"
  /\ ret.op = "getattr"
  /\ ret.name = TotallyUnrelated
  /\ ret.outcome = "raise"

C4_PlaceholdersTakePrecedence ==
  /\ (ret.op = "lookup" /\ ret.name \in Placeholders(mod))
       => /\ ~ret.hook
          /\ ret.outcome = "return"
          /\ ret.value = PyRef(Loaded[mod][ret.name].oid)
  /\ ret.op = "call_placeholder"
       => /\ ~ret.hook
          /\ ret.target = PyRef(Loaded[mod][ret.name].oid)

C4_Witness ==
  /\ ret.op = "lookup"
  /\ ret.name \in Placeholders(mod)
  /\ Prefixed(ret.name)
  /\ Len(stubs) = 2
  /\ Len(log) = 2

\* C5: every explicit placeholder accepts any positional and keyword
\* arguments and returns its fixed result on every call.
C5_PlaceholdersAcceptAnyArguments ==
  ret.op = "call_placeholder"
    => /\ ret.outcome = "return"
       /\ ret.value = Loaded[mod][ret.name].result

\* C6, as stated: in awadhfree, __getattr__ of every name that is not defined
\* in the module returns a stub and never raises.
C6_AwadhfreeNeverRejects ==
  (mod = "awadhfree" /\ ret.op = "getattr" /\ ret.name \notin LoadedNames[mod])
    => ret.outcome = "return"

\* C6, amended: in awadhfree, __getattr__ of a name that is not defined in the
\* module returns a stub exactly when the name starts with "module_" or
\* "func_" or is a valid identifier; any other name raises AttributeError.
C6_AwadhfreeAcceptsIdentifiers ==
  (mod = "awadhfree" /\ ret.op = "getattr" /\ ret.name \notin LoadedNames[mod])
    => IF Prefixed(ret.name) \/ isidentifier(ret.name)
       THEN ret.outcome = "return" /\ IsStubRef(ret.value)
       ELSE /\ ret.outcome = "raise"
            /\ ret.exc.type = "AttributeError"
            /\ Carries(ret.exc.msg, ret.name)
            /\ stubs = <<>>

C6_Witness ==
  /\ mod = "awadhfree"
  /\ ret.op = "getattr"
  /\ ret.name = TotallyUnrelated
  /\ ret.outcome = "return"

\* C7, as stated: the log holds one informational resolution event per
\* resolution that made a stub.
C7_OneEventPerAcceptedResolution ==
  Cardinality({i \in DOMAIN log : IsResolutionEvent(log[i])}) = Len(held)

\* C7, amended: no lookup, whether __getattr__ makes a stub for it or rejects
\* it, appends anything to the log, and the log never holds a resolution event.
C7_ResolutionIsSilent ==
  [][/\ ret'.op = "lookup" => log' = log
     /\ \A i \in DOMAIN log' : ~IsResolutionEvent(log'[i])]_vars

C7_Witness ==
  /\ ret.op = "lookup"
  /\ ret.hook
  /\ ret.outcome = "return"
  /\ Len(held) = 2
  /\ log = <<>>

\* C8: every call of a stub returns and appends exactly one WARNING event
\* carrying the stub's name and the arguments received, and no other operation
\* adds a WARNING event: the warnings in the log are the stub calls, in order.
C8_StubCallsAreTheWarnings ==
  [][IF ret'.op = "call_stub"
     THEN /\ ret'.outcome = "return"
          /\ Len(log') = Len(log) + 1
          /\ SubSeq(log', 1, Len(log)) = log
          /\ LET e == log'[Len(log')]
             IN /\ e.level = "WARNING"
                /\ e.logger = ModuleName(mod)
                /\ e.has = {"name", "args", "kwargs"}
                /\ e.name = ret'.name
                /\ e.args = ret'.args
                /\ e.kwargs = ret'.kwargs
     ELSE Warnings(log') = Warnings(log)]_vars

C8_Witness ==
  /\ ret.op = "call_stub"
  /\ Len(log) = 2
  /\ Warnings(log) = log
  /\ log[1].name = FUNC_
  /\ log[2].name = M(9999)
  /\ log[2].args = <<1, 2>>

\* C9: no operation rebinds a name of the module; a lookup of an undefined
\* name that was resolved before goes through __getattr__ again, is accepted
\* again and yields a new closure over the same name, not one handed out
\* earlier; a rejected name looked up again is rejected again.
C9_ResolutionKeepsNoState ==
  [][/\ ns = <<>> /\ ns' = <<>> /\ mod' = mod
     /\ (ret'.op = "lookup" /\ \E j \in DOMAIN held : held[j].name = ret'.name)
          => /\ ret'.hook
             /\ ret'.outcome = "return"
             /\ \A j \in DOMAIN held : held[j].ref # ret'.value
             /\ stubs' = Append(stubs, stubs'[Len(stubs')])
             /\ ret'.value = PyRef(stubs'[Len(stubs')].oid)
             /\ stubs'[Len(stubs')].cell = ret'.name
     /\ (ret'.op = "lookup" /\ ret.op = "lookup" /\ ret'.name = ret.name)
          => ret'.hook = ret.hook /\ ret'.outcome = ret.outcome]_vars

C9_Witness ==
  /\ ret.op = "lookup"
  /\ Len(held) = 2
  /\ held[1].name = held[2].name
  /\ held[1].ref # held[2].ref
  /\ stubs[1].cell = stubs[2].cell

\* what the loops of cdsfree and icsfree leave bound, per module: every name
\* of the module list to a function answering {"name": <that name>, "ok": True},
\* every name of the func list to a function answering None, and one function
\* per name
LoopBindings ==
  [m \in {"cdsfree", "icsfree"} |->
     /\ \A i \in DOMAIN PLACEHOLDER_MODULES(m) :
          LET n == PLACEHOLDER_MODULES(m)[i]
              c == CallAttr(m, n, <<>>, {}, St(<<>>, <<>>, <<>>))
          IN /\ ~c.hook
             /\ c.r.outcome = "return"
             /\ c.r.value = PyDict([name |-> n, ok |-> TRUE])
     /\ \A i \in DOMAIN EXPLICIT_FUNCS(m) :
          LET n == EXPLICIT_FUNCS(m)[i]
              c == CallAttr(m, n, <<1, 2>>, {<<"x", 3>>}, St(<<>>, <<>>, <<>>))
          IN /\ ~c.hook
             /\ c.r.outcome = "return"
             /\ c.r.value = PyNone
     /\ \A n \in Range(PLACEHOLDER_MODULES(m)) \cup Range(EXPLICIT_FUNCS(m)) :
          Cardinality({x \in LoadedNames[m] :
                         /\ Loaded[m][x].kind = "def"
                         /\ Loaded[m][x].qualname = n}) = 1]

\* C10: in cdsfree and icsfree every loop-made placeholder is bound to its own
\* name: called, a name of the module list answers {"name": n, "ok": True} and
\* a name of the func list answers None; func_9562, listed twice, is one
\* function of that name.
C10_LoopPlaceholdersBoundToOwnName ==
  mod \in {"cdsfree", "icsfree"}
    => /\ LoopBindings[mod]
       /\ (ret.op = "call_placeholder" /\ ret.name \in Range(PLACEHOLDER_MODULES(mod)))
            => /\ ret.outcome = "return"
               /\ ret.value = PyDict([name |-> ret.name, ok |-> TRUE])
       /\ (ret.op = "call_placeholder" /\ ret.name \in Range(EXPLICIT_FUNCS(mod)))
            => /\ ret.outcome = "return"
               /\ ret.value = PyNone

C10_Witness ==
  /\ mod = "cdsfree"
  /\ ret.op = "call_placeholder"
  /\ ret.name = M(1024)
  /\ ret.args = <<1, 2>>
  /\ ret.outcome = "return"
  /\ Len(log) = 2
  /\ log[1].name = F(9562)

====
